---- MODULE Spec2Model ----
(***************************************************************************)
(* A model of finagle/company.py: the class `company`, its year-indexed    *)
(* table `fin` (a pandas DataFrame, one column per line item, rows 0..H)   *)
(* and the methods that build and mutate it.                               *)
(*                                                                         *)
(* Numbers.  The program computes in IEEE doubles.  The model computes in  *)
(* exact rationals <<n, d>> (d > 0, lowest terms); NaN is <<0, 0>>.  A     *)
(* division by zero yields NaN (the program yields inf or nan there).       *)
(* Rounding of doubles is outside the model.                               *)
(***************************************************************************)
EXTENDS Integers, Sequences, FiniteSets, TLC

(***************************************************************************)
(* Bounds of the model.                                                    *)
(***************************************************************************)
H == 4
MaxOps == 2

Years == 0..H

(***************************************************************************)
(* Rational arithmetic.                                                    *)
(***************************************************************************)
RECURSIVE GCD(_, _)
GCD(a, b) == IF b = 0 THEN a ELSE GCD(b, a % b)

Abs(n) == IF n < 0 THEN -n ELSE n

\* The integers of the model are 32 bits wide.  A product or a sum is formed only
\* when it stays within 2^30 - 1; a number that would need more is Big, and
\* whatever is computed from Big is Big.
Limit == 2^30 - 1
Fits(a, b) == a = 0 \/ Abs(b) <= Limit \div Abs(a)

NaN == <<0, 0>>
Big == <<0, -1>>
IsNaN(x) == x[2] = 0
IsBig(x) == x[2] < 0

Reduce(n, d, g) == <<n \div g, d \div g>>
Norm(n, d) == Reduce(n, d, GCD(Abs(n), d))

Q(n, d) == Norm(n, d)
R(n) == <<n, 1>>
Zero == <<0, 1>>
One == <<1, 1>>

\* x + y over the common denominator x[2] * y[2] / g, g the GCD of the two.
AddOver(x, y, g) ==
    IF /\ Fits(x[2], y[2] \div g)
       /\ Fits(x[1], y[2] \div g)
       /\ Fits(y[1], x[2] \div g)
    THEN Norm(x[1] * (y[2] \div g) + y[1] * (x[2] \div g), x[2] * (y[2] \div g))
    ELSE Big

Add(x, y) ==
    IF IsNaN(x) \/ IsNaN(y) THEN NaN
    ELSE IF IsBig(x) \/ IsBig(y) THEN Big
    ELSE AddOver(x, y, GCD(x[2], y[2]))

Neg(x) == <<-x[1], x[2]>>
Sub(x, y) == Add(x, Neg(y))

\* (n1 / d1) * (n2 / d2) of numbers already reduced across.
MulReduced(n1, d1, n2, d2) ==
    IF Fits(n1, n2) /\ Fits(d1, d2) THEN <<n1 * n2, d1 * d2>> ELSE Big

\* x * y with g1 = GCD(|x[1]|, y[2]) and g2 = GCD(|y[1]|, x[2]) divided out.
MulOver(x, y, g1, g2) == MulReduced(x[1] \div g1, x[2] \div g2, y[1] \div g2, y[2] \div g1)

Mul(x, y) ==
    IF IsNaN(x) \/ IsNaN(y) THEN NaN
    ELSE IF IsBig(x) \/ IsBig(y) THEN Big
    ELSE MulOver(x, y, GCD(Abs(x[1]), y[2]), GCD(Abs(y[1]), x[2]))

Div(x, y) ==
    IF IsNaN(x) \/ IsNaN(y) THEN NaN
    ELSE IF IsBig(x) \/ IsBig(y) THEN Big
    ELSE IF y[1] = 0 THEN NaN
    ELSE IF y[1] < 0 THEN Mul(x, <<-y[2], -y[1]>>)
    ELSE Mul(x, <<y[2], y[1]>>)

IsNeg(x) == x[2] > 0 /\ x[1] < 0
IsPos(x) == x[2] > 0 /\ x[1] > 0

\* x < y as the program's `<` decides it: False when either side is NaN.
Lt(x, y) == IsNeg(Sub(x, y))
Gt(x, y) == Lt(y, x)
Le(x, y) == ~IsNaN(x) /\ ~IsNaN(y) /\ ~Lt(y, x)
Ge(x, y) == Le(y, x)

\* Python's built-in max(a, b) and min(a, b): the first argument is kept unless
\* the second compares strictly greater (smaller).
PickMax(a, b, d) == IF IsBig(d) THEN Big ELSE IF IsPos(d) THEN b ELSE a
PickMin(a, b, d) == IF IsBig(d) THEN Big ELSE IF IsNeg(d) THEN b ELSE a
PyMax(a, b) == PickMax(a, b, Sub(b, a))
PyMin(a, b) == PickMin(a, b, Sub(b, a))

\* A column whose entries have been computed once (a function in explicit form).
Col(f) == IF f = f THEN f ELSE f

(***************************************************************************)
(* Assumptions of the run (constructor arguments, company.__init__).       *)
(***************************************************************************)
gt == Zero
re == One
rd == Q(1, 2)
t == Q(1, 2)
roict == Q(1, 2)
shares == R(16)
price == R(8)

\* The `dividend` argument as the list __init__ makes of it.
DividendChoices == {<<Zero>>, <<Q(1, 2)>>}
\* The `te` argument: None (here NaN) or a rate.
TeChoices == {NaN, Q(1, 4)}

(***************************************************************************)
(* company.__stream: anchors (0, sf[0]) .. (L-1, sf[L-1]) and (year, st),  *)
(* evaluated at the years 0..year by scipy's linear interp1d, which hands  *)
(* the work to numpy.interp: the anchor's own value at an anchor, the last *)
(* anchor (st) at the last year, the chord in between.  sf is a sequence   *)
(* holding the L values that are not NaN, 1 <= L <= year + 1.              *)
(***************************************************************************)
\* Stream with the chord drawn over the whole horizon instead of the years left
\* after the last explicit one.
StreamOverHorizon(sf, st) ==
    LET L == Len(sf)
    IN Col([k \in Years |->
            IF k = H THEN st
            ELSE IF k <= L - 1 THEN sf[k + 1]
            ELSE Add(Mul(Div(Sub(st, sf[L]), R(H)), R(k - (L - 1))), sf[L])])
Stream(sf, st) ==
    LET L == Len(sf)
    IN Col([k \in Years |->
            IF k = H THEN st
            ELSE IF k <= L - 1 THEN sf[k + 1]
            ELSE Add(Mul(Div(Sub(st, sf[L]), R(H - (L - 1))), R(k - (L - 1))), sf[L])])

\* `elif isinstance(sf, float): length = 1; sf = [sf]`: the argument is
\* <<"float", x>> or <<"list", l>>; a number becomes the list of that one
\* number, a list stays.
StreamList(sf) == IF sf[1] = "float" THEN <<sf[2]>> ELSE sf[2]
\* __stream(sf, st) of a number or of a list without NaN.
StreamOf(sf, st) == Stream(StreamList(sf), st)

\* np.count_nonzero(~np.isnan(sf)) of a column, and sf.iloc[0:length] as a list.
CountNonNaN(col) == Cardinality({i \in Years : ~IsNaN(col[i])})
SeriesPrefix(col) == [j \in 1..CountNonNaN(col) |-> col[j - 1]]

\* A Python list of year + 1 entries as a column of the table.
ListToCol(l) == [i \in Years |-> IF i + 1 <= Len(l) THEN l[i + 1] ELSE NaN]

(***************************************************************************)
(* The forecast builders.  A Python list is a sequence here: list[i] is    *)
(* seq[i + 1].  An argument that is None is NaN.                           *)
(***************************************************************************)
\* Python truth of an optional number: None and 0 are false.
Truthy(x) == ~IsNaN(x) /\ x[1] # 0

\* The loop of forecast_ebitda over i = 0 .. year - 1; `glide` is the outcome
\* of `mc and me and gsnext is not None` (the margin-glide mode).
RECURSIVE EbitdaLoop(_, _, _, _, _, _, _, _, _)
EbitdaLoop(i, ebitda, revenue, g, gs, length, glide, mc, me) ==
    IF i = H THEN [ebitda |-> ebitda, revenue |-> revenue]
    ELSE IF ~glide
    THEN EbitdaLoop(i + 1, Append(ebitda, Mul(ebitda[i + 1], Add(One, g[i]))),
                    Append(revenue, Zero), g, gs, length, glide, mc, me)
    ELSE IF i < length
    THEN EbitdaLoop(i + 1, Append(ebitda, Mul(ebitda[i + 1], Add(One, g[i]))),
                    Append(revenue, NaN), g, gs, length, glide, mc, me)
    ELSE LET sales == Mul(Div(ebitda[i + 1], me), Add(One, gs[i]))
             next == Mul(ebitda[i + 1], Add(One, Mul(Div(mc, me), gs[i])))
         IN EbitdaLoop(i + 1, Append(ebitda, next), Append(revenue, sales),
                       g, gs, length, glide, mc, Div(next, sales))

\* forecast_ebitda(ebitda_ttm, gf, financials, me, mc, gsnext): the lists it
\* returns and stores under 'ebitda' and 'revenue'.
ForecastEbitdaLists(ebitda_ttm, gf, me, mc, gsnext) ==
    LET g == Stream(gf, gt)
        glide == Truthy(mc) /\ Truthy(me) /\ ~IsNaN(gsnext)
        length == Len(gf)
        gs == IF glide THEN Stream([j \in 1..(length + 1) |->
                                       IF j <= length THEN Zero ELSE gsnext], gt)
              ELSE g
    IN EbitdaLoop(0, <<ebitda_ttm>>, <<NaN>>, g, gs, length, glide, mc, me)

RECURSIVE CapexLoop(_, _, _, _)
CapexLoop(i, capex, length, ebitda) ==
    IF i > H THEN capex
    ELSE CapexLoop(i + 1,
                   Append(capex, Mul(Div(capex[length], ebitda[length]), ebitda[i + 1])),
                   length, ebitda)

\* forecast_capex(capex_f, financials): the list stored under 'capex'.
ForecastCapexList(capex_f, ebitda) == CapexLoop(Len(capex_f), capex_f, Len(capex_f), ebitda)

RECURSIVE SbcLoop(_, _, _, _)
SbcLoop(i, sbc, sbc_rate, ebitda) ==
    IF i > H THEN sbc
    ELSE SbcLoop(i + 1, Append(sbc, Mul(sbc_rate[i], ebitda[i + 1])), sbc_rate, ebitda)

\* forecast_sbc(sbc_f, financials, sbc_rate_t): the list stored under 'sbc'.
ForecastSbcList(sbc_f, ebitda, sbc_rate_t) ==
    LET length == Len(sbc_f)
        rate_t == IF IsNaN(sbc_rate_t) THEN Div(sbc_f[length], ebitda[length])
                  ELSE sbc_rate_t
        sbc_rate_f == [j \in 1..length |-> Div(sbc_f[j], ebitda[j])]
    IN SbcLoop(length, sbc_f, Stream(sbc_rate_f, rate_t), ebitda)

(***************************************************************************)
(* The table self.fin: one column per name, each a function on the years.  *)
(* `cols` is the set of columns the DataFrame holds; a column it does not  *)
(* hold is all NaN in the record.  None (an object column's entry) is      *)
(* NoneV.                                                                  *)
(***************************************************************************)
NoneV == <<1, 0>>
IsNone(x) == x = NoneV

NaNCol == [i \in Years |-> NaN]
NoneCol == [i \in Years |-> NoneV]
ConstCol(v) == [i \in Years |-> v]

InputCols == {"revenue", "ebitda", "capex", "sbc", "dwc", "debt", "cash", "nol",
              "noa", "tax", "da", "interest"}
\* from_ebitda_columns of __datacheck
FromEbitdaColumns == {"revenue", "price", "tax", "interest", "capex", "noa", "nol",
                      "ebitda", "shares", "dwc", "debt", "cash", "da", "MnA",
                      "buybacks", "cashBS", "sbc"}
FcfCols == {"income_pretax", "dDebt", "tax_cash", "income_taxable", "fcf", "fcfe",
            "fcff", "dividend_policy", "dividend"}
ValueCols == {"equity", "EV", "wacc", "firm", "DDM", "value_per_share",
              "value_per_share_DDM"}
AllCols == FromEbitdaColumns \cup FcfCols \cup ValueCols \cup {"debt_Target"}

EmptyFin == [c \in AllCols |-> NaNCol]

\* __datacheck: every required column is there and the five forecast columns
\* hold no NaN.
DataCheck(f, cs) ==
    /\ cs = FromEbitdaColumns
    /\ \A c \in {"ebitda", "capex", "dwc", "debt", "sbc"} : \A i \in Years : ~IsNaN(f[c][i])

\* load_financials(financials): the table made of the dictionary's lists
\* (a short list leaves NaN below it), and the columns it adds.
LoadFinancials(d) ==
    LET base == [c \in AllCols |-> IF c \in InputCols THEN ListToCol(d[c]) ELSE NaNCol]
        f == [base EXCEPT !.shares = ConstCol(shares),
                          !.price = ConstCol(price),
                          !.MnA = ConstCol(Zero),
                          !.buybacks = ConstCol(Zero),
                          !.cashBS = [i \in Years |-> IF i = 0 THEN base.cash[0] ELSE Zero]]
    IN [fin |-> f, cols |-> FromEbitdaColumns, cash0 |-> f.cash[0],
        data_for_ebitda |-> DataCheck(f, FromEbitdaColumns)]

(***************************************************************************)
(* The object: o.fin and o.cols (self.fin), o.cash0, o.buybacks,           *)
(* o.data_for_ebitda, o.te, o.dividend (attributes), o.log (the messages   *)
(* given to logging.error) and o.raised (the exception that ended the      *)
(* call, "none" when it returned).                                         *)
(***************************************************************************)

\* C and the terminal depreciation `dat` of fcf_from_ebitda.
TerminalC == Mul(Div(gt, roict), Sub(One, t))
TerminalDa(f) == Div(Sub(f.capex[H], Mul(TerminalC, f.ebitda[H])), Sub(One, TerminalC))

\* self.fin['interest'] of fcf_from_ebitda: rd * debt.shift(1), row 0 kept.
\* InterestCol without the year-0 entry put back.
InterestColShifted(f) == Col([i \in Years |-> IF i = 0 THEN NaN ELSE Mul(rd, f.debt[i - 1])])
InterestCol(f) ==
    Col([i \in Years |-> IF i = 0 THEN f.interest[0] ELSE Mul(rd, f.debt[i - 1])])

\* self.fin['dDebt']: debt - debt.shift(1), row 0 set to 0.
DDebtCol(f) ==
    Col([i \in Years |-> IF i = 0 THEN Zero ELSE Sub(f.debt[i], f.debt[i - 1])])

\* The NOL carried into year i + 1 and the taxable income of year i, i >= 1.
\* NolNext without the floor at zero.
NolNextUnfloored(nolPrev, pretax) == Sub(nolPrev, pretax)
NolNext(nolPrev, pretax) == PyMax(Sub(nolPrev, pretax), Zero)
\* IncomeTaxable without the floor at zero.
IncomeTaxableUnfloored(nolPrev, pretax) == Sub(pretax, nolPrev)
IncomeTaxable(nolPrev, pretax) == PyMax(Zero, Sub(pretax, nolPrev))

\* fcf, fcfe and fcff of one year, from that year's entries.
FcfOf(ebitda, sbc, tax_cash, capex, dwc, interest) ==
    Sub(Sub(Sub(Sub(Sub(ebitda, sbc), tax_cash), capex), dwc), interest)
\* FcfeOf with the change in debt left out.
FcfeOfNoDebt(ebitda, sbc, tax_cash, capex, dwc, dDebt, interest, MnA) ==
    Sub(Sub(Sub(Sub(Sub(Sub(ebitda, sbc), tax_cash), capex), dwc), interest), MnA)
FcfeOf(ebitda, sbc, tax_cash, capex, dwc, dDebt, interest, MnA) ==
    Sub(Sub(Add(Sub(Sub(Sub(Sub(ebitda, sbc), tax_cash), capex), dwc), dDebt), interest), MnA)
\* FcffOf with the whole interest taken off, as in fcf.
FcffOfAllInterest(ebitda, sbc, tax_cash, capex, dwc, interest, MnA) ==
    Sub(Sub(Sub(Sub(Sub(Sub(ebitda, sbc), tax_cash), capex), dwc), interest), MnA)
FcffOf(ebitda, sbc, tax_cash, capex, dwc, interest, MnA) ==
    Sub(Sub(Sub(Sub(Sub(Sub(ebitda, sbc), tax_cash), capex), dwc), Mul(interest, t)), MnA)

\* The terminal anchor handed to __stream for the 'da' column.
DaColumn(f) == Stream(SeriesPrefix(f.da), TerminalDa(f))

\* fcf_from_ebitda(), statement by statement: each operator is the table after
\* the statement that writes the column it is named for.
WithInterest(f) == [f EXCEPT !.interest = InterestCol(f)]

WithDa(f) == [f EXCEPT !.da = DaColumn(f)]

WithIncomePretax(f) ==
    [f EXCEPT !.income_pretax = Col([i \in Years |->
        Sub(Sub(Sub(f.ebitda[i], f.sbc[i]), f.da[i]), f.interest[i])])]

WithDDebt(f) == [f EXCEPT !.dDebt = DDebtCol(f)]

\* tax1 of the `te is None` branch, from tax0.
TaxOne(f, tax0) == Add(tax0, Mul(t, Sub(f.income_pretax[1], f.income_pretax[0])))

\* The effective rate `te` of year 1: the one derived from the filed tax when
\* self.te is None, else self.te.
EffectiveRate(f, te) ==
    IF IsNaN(te)
    THEN Div(TaxOne(f, PyMax(Mul(t, f.income_pretax[0]), f.tax[0])), f.income_pretax[1])
    ELSE te

\* The loop `for i in range(1, self.year+1)`, one column at a time: entry i of
\* a column reads entries of its own and of the others that the loop has
\* already written.
\* `nol` lists the entries of the years 0 .. Len(nol) - 1 already written.
RECURSIVE NolLoop(_, _)
NolLoop(nol, f) ==
    IF Len(nol) > H THEN nol
    ELSE NolLoop(Append(nol, NolNext(nol[Len(nol)], f.income_pretax[Len(nol)])), f)
\* WithNol reading the year before from the column as it was (a shift of the
\* column) instead of from the entry the loop has just written.
WithNolShifted(f) ==
    [f EXCEPT !.nol = Col([i \in Years |->
        IF i = 0 THEN f.nol[0] ELSE NolNext(f.nol[i - 1], f.income_pretax[i])])]
WithNol(f) == [f EXCEPT !.nol = ListToCol(NolLoop(<<f.nol[0]>>, f))]

WithIncomeTaxable(f) ==
    [f EXCEPT !.income_taxable = Col([i \in Years |->
        IF i = 0
        THEN PyMax(Mul(f.income_pretax[0],
                       IF Gt(Sub(One, f.nol[0]), Zero) THEN One ELSE Zero), Zero)
        ELSE IncomeTaxable(f.nol[i - 1], f.income_pretax[i])])]

\* tax of the year i, from the entry written for the year before.
TaxNext(f, rate, i, before) ==
    IF i = 1 THEN Mul(rate, PyMax(f.income_pretax[1], Zero))
    ELSE Add(before, Mul(t, Sub(PyMax(f.income_pretax[i], Zero),
                                PyMax(f.income_pretax[i - 1], Zero))))
RECURSIVE TaxLoop(_, _, _)
TaxLoop(tax, f, rate) ==
    IF Len(tax) > H THEN tax
    ELSE TaxLoop(Append(tax, TaxNext(f, rate, Len(tax), tax[Len(tax)])), f, rate)
WithTax(f, rate) == [f EXCEPT !.tax = ListToCol(TaxLoop(<<f.tax[0]>>, f, rate))]

WithTaxCash(f) ==
    [f EXCEPT !.tax_cash = Col([i \in Years |->
        IF i = 0 THEN f.tax[0]
        ELSE Add(f.tax[i], Mul(t, PyMin(Sub(f.nol[i], f.nol[i - 1]), Zero)))])]

WithFcf(f) ==
    [f EXCEPT !.fcf = Col([i \in Years |->
        FcfOf(f.ebitda[i], f.sbc[i], f.tax_cash[i], f.capex[i], f.dwc[i], f.interest[i])])]

WithFcfe(f) ==
    [f EXCEPT !.fcfe = Col([i \in Years |->
        FcfeOf(f.ebitda[i], f.sbc[i], f.tax_cash[i], f.capex[i], f.dwc[i], f.dDebt[i],
               f.interest[i], f.MnA[i])])]

WithFcff(f) ==
    [f EXCEPT !.fcff = Col([i \in Years |->
        FcffOf(f.ebitda[i], f.sbc[i], f.tax_cash[i], f.capex[i], f.dwc[i],
               f.interest[i], f.MnA[i])])]

\* dividend is self.dividend, a list of n_div >= 1 entries.
\* DividendPolicyNext without the floor at the year before.
DividendPolicyNextUnfloored(f, dividend, i, before) ==
    IF i < Len(dividend) THEN Mul(dividend[i + 1], f.shares[i])
    ELSE Mul(Div(Mul(dividend[Len(dividend)], f.shares[Len(dividend) - 1]),
                 f.fcf[Len(dividend) - 1]),
             f.fcf[i])
\* dividend_policy of the year i, from the entry written for the year before.
DividendPolicyNext(f, dividend, i, before) ==
    IF i < Len(dividend) THEN Mul(dividend[i + 1], f.shares[i])
    ELSE PyMax(Mul(Div(Mul(dividend[Len(dividend)], f.shares[Len(dividend) - 1]),
                       f.fcf[Len(dividend) - 1]),
                   f.fcf[i]),
               before)
RECURSIVE DividendPolicyLoop(_, _, _)
DividendPolicyLoop(dp, f, dividend) ==
    IF Len(dp) > H THEN dp
    ELSE DividendPolicyLoop(Append(dp, DividendPolicyNext(f, dividend, Len(dp), dp[Len(dp)])),
                            f, dividend)
WithDividendPolicy(f, dividend) ==
    [f EXCEPT !.dividend_policy =
        ListToCol(DividendPolicyLoop(<<Mul(dividend[1], f.shares[0])>>, f, dividend))]

WithDividend(f) ==
    [f EXCEPT !.dividend = Col([i \in Years |->
        Div(Sub(f.fcfe[i], f.buybacks[i]), f.shares[i])])]

\* cash[1:] = fcfe[1:], then the cumulative sum.
RECURSIVE CashLoop(_, _)
CashLoop(cash, f) ==
    IF Len(cash) > H THEN cash
    ELSE CashLoop(Append(cash, Add(cash[Len(cash)], f.fcfe[Len(cash)])), f)
WithCash(f) == [f EXCEPT !.cash = ListToCol(CashLoop(<<f.cash[0]>>, f))]

WithNoa(f) == [f EXCEPT !.noa = ConstCol(f.noa[0])]

\* The statements up to the tax section, the tax section with its loop, the
\* three cash flows, and the statements after them.
BeforeTaxes(f) == WithDDebt(WithIncomePretax(WithDa(WithInterest(f))))
Taxes(f, te) == WithTaxCash(WithTax(WithIncomeTaxable(WithNol(f)), EffectiveRate(f, te)))
CashFlows(f) == WithFcff(WithFcfe(WithFcf(f)))
Payouts(f, dividend) == WithNoa(WithCash(WithDividend(WithDividendPolicy(f, dividend))))

\* The table fcf_from_ebitda leaves.
FcfTable(f, te, dividend) == Payouts(CashFlows(Taxes(BeforeTaxes(f), te)), dividend)

\* What fcf_from_ebitda hands to logging.error.
FcfLog(o) ==
    (IF o.data_for_ebitda THEN {}
     ELSE {"financial dataset cannot be used for calculating FCF from EBITDA"})
    \cup (IF Lt(TerminalDa(o.fin), Zero)
          THEN {"negative depreciation in terminal year"} ELSE {})

\* fcf_from_ebitda()
FcfFromEbitda(o) ==
    [o EXCEPT !.fin = FcfTable(o.fin, o.te, o.dividend),
              !.cols = o.cols \cup FcfCols,
              !.log = o.log \cup FcfLog(o)]

(***************************************************************************)
(* fcf_to_debt(leverage, year_d)                                           *)
(***************************************************************************)
Passes == 3

\* self.fin['debt_Target']
DebtTargetCol(f, leverage) ==
    [i \in Years |-> IF Gt(f.ebitda[i], Zero) THEN Mul(leverage, f.ebitda[i]) ELSE Zero]

\* The cash that caps the repayment written to debt[i + 1] (loop index i).
DebtAvail(f, i) ==
    IF i = 0
    THEN Sub(Sub(Add(f.fcf[i + 1], f.cash[i]), f.MnA[i + 1]), f.dividend_policy[i + 1])
    ELSE Sub(Sub(f.fcf[i + 1], f.MnA[i + 1]), f.dividend_policy[i + 1])

\* dDebt of loop index i: to the target when under-levered, else the repayment
\* capped by the available cash.
\* DebtChangeOf repaying all the available cash when over-levered.
DebtChangeOfUncapped(gap, avail) ==
    IF Lt(gap, Zero) THEN Mul(R(-1), gap) ELSE Mul(R(-1), avail)
DebtChangeOf(gap, avail) ==
    IF Lt(gap, Zero) THEN Mul(R(-1), gap) ELSE Mul(R(-1), PyMin(gap, avail))
\* DebtChange measuring the excess from the debt of the year written, not
\* from the debt of the year before it.
DebtChangeFromOwnYear(f, i) ==
    DebtChangeOf(Sub(f.debt[i + 1], f.debt_Target[i + 1]), DebtAvail(f, i))
DebtChange(f, i) == DebtChangeOf(Sub(f.debt[i], f.debt_Target[i + 1]), DebtAvail(f, i))

\* One walk `for i in range(year_d-1, self.year)`, from index i on.  Reading
\* fcf where it is None raises TypeError (None + float).
RECURSIVE DebtPass(_, _)
DebtPass(i, o) ==
    IF i >= H THEN o
    ELSE IF ~Lt(Sub(o.fin.debt[i], o.fin.debt_Target[i + 1]), Zero) /\ IsNone(o.fin.fcf[i + 1])
    THEN [o EXCEPT !.raised = "TypeError"]
    ELSE DebtPass(i + 1,
                  [o EXCEPT !.fin.debt[i + 1] = Add(o.fin.debt[i], DebtChange(o.fin, i))])

\* The n remaining passes, each followed by fcf_from_ebitda().
RECURSIVE DebtPasses(_, _, _)
RECURSIVE AfterWalk(_, _, _)
\* AfterWalk going to the next pass without fcf_from_ebitda().
AfterWalkNoRecompute(n, walked, year_d) ==
    IF walked.raised # "none" THEN walked
    ELSE DebtPasses(n - 1, walked, year_d)
\* `walked` is the object after the walk of one pass, n passes still to close.
AfterWalk(n, walked, year_d) ==
    IF walked.raised # "none" THEN walked
    ELSE DebtPasses(n - 1, FcfFromEbitda(walked), year_d)
DebtPasses(n, o, year_d) ==
    IF n = 0 THEN o ELSE AfterWalk(n, DebtPass(year_d - 1, o), year_d)

\* The object with `message` logged when the data check had failed.
LogUnlessData(o, message) ==
    IF o.data_for_ebitda THEN o ELSE [o EXCEPT !.log = @ \cup {message}]

FcfToDebt(o, leverage, year_d) ==
    IF "fcf" \notin o.cols
    THEN [LogUnlessData(o, "financial dataset cannot be used to optimize leverage")
             EXCEPT !.raised = "KeyError"]
    ELSE DebtPasses(Passes,
                    [LogUnlessData(o, "financial dataset cannot be used to optimize leverage")
                        EXCEPT !.fin.debt_Target = DebtTargetCol(o.fin, leverage),
                               !.cols = @ \cup {"debt_Target"}],
                    year_d)

(***************************************************************************)
(* fcf_to_acquire(adjust_cash, year_a, ebitda_frac, multiple, leverage,    *)
(* gnext, cap_frac)                                                        *)
(***************************************************************************)
\* dEbitda: the growth list g = [0]*year_a + [ebitda_frac - 1, gnext] through
\* forecast_ebitda from ebitda[year_a], the years 0..year_a then set to 0.
AcquiredEbitda(f, year_a, ebitda_frac, gnext) ==
    LET g == [j \in 1..(year_a + 2) |->
                 IF j <= year_a THEN Zero
                 ELSE IF j = year_a + 1 THEN Sub(ebitda_frac, One) ELSE gnext]
        e == ForecastEbitdaLists(f.ebitda[year_a], g, NaN, NaN, NaN).ebitda
    IN Col([i \in Years |-> IF i <= year_a THEN Zero ELSE e[i + 1]])

\* AcquireCharge net of the acquisition debt.
AcquireChargeNetOfDebt(multiple, leverage, dE) == Mul(Sub(multiple, leverage), dE)
\* What the acquisition adds to MnA[year_a].
AcquireCharge(multiple, leverage, dE) == Mul(multiple, dE)

\* The cash taken out of year 0 when year_a = 0 and adjust_cash is True.
AcquireCashOut(multiple, leverage, dE) == Mul(Sub(multiple, leverage), dE)

\* AcquireTable with the charge written over MnA[year_a] instead of added to it.
AcquireTableChargeSet(f, dEbitda, year_a, multiple, leverage, cap_frac) ==
    [f EXCEPT
        !.debt = [i \in Years |->
            Add(f.debt[i], IF i >= year_a THEN Mul(leverage, dEbitda[year_a + 1]) ELSE Zero)],
        !.MnA = [f.MnA EXCEPT
            ![year_a] = AcquireCharge(multiple, leverage, dEbitda[year_a + 1])],
        !.capex = [i \in Years |-> Add(f.capex[i], Mul(cap_frac, dEbitda[i]))],
        !.ebitda = [i \in Years |-> Add(f.ebitda[i], dEbitda[i])],
        !.da = [i \in Years |-> IF i >= year_a + 1 THEN NaN ELSE f.da[i]]]
\* The table when fcf_to_acquire reaches its cash test (before the recompute).
AcquireTable(f, dEbitda, year_a, multiple, leverage, cap_frac) ==
    [f EXCEPT
        !.debt = [i \in Years |->
            Add(f.debt[i], IF i >= year_a THEN Mul(leverage, dEbitda[year_a + 1]) ELSE Zero)],
        !.MnA = [f.MnA EXCEPT
            ![year_a] = Add(@, AcquireCharge(multiple, leverage, dEbitda[year_a + 1]))],
        !.capex = [i \in Years |-> Add(f.capex[i], Mul(cap_frac, dEbitda[i]))],
        !.ebitda = [i \in Years |-> Add(f.ebitda[i], dEbitda[i])],
        !.da = [i \in Years |-> IF i >= year_a + 1 THEN NaN ELSE f.da[i]]]

\* `if year_a == 0 and adjust_cash is True`: cash[0] and self.cash0 pay for the equity part.
AcquireCash(o, dEbitda, adjust_cash, year_a, multiple, leverage) ==
    IF year_a = 0 /\ adjust_cash
    THEN [o EXCEPT
            !.fin.cash[0] = Sub(@, AcquireCashOut(multiple, leverage, dEbitda[1])),
            !.cash0 = Sub(o.fin.cash[0], AcquireCashOut(multiple, leverage, dEbitda[1]))]
    ELSE o

AcquireWith(o, dEbitda, adjust_cash, year_a, multiple, leverage, cap_frac) ==
    AcquireCash([o EXCEPT !.fin = AcquireTable(o.fin, dEbitda, year_a, multiple, leverage,
                                               cap_frac)],
                dEbitda, adjust_cash, year_a, multiple, leverage)

AcquireMutate(o, adjust_cash, year_a, ebitda_frac, multiple, leverage, gnext, cap_frac) ==
    AcquireWith(o, AcquiredEbitda(o.fin, year_a, ebitda_frac, gnext),
                adjust_cash, year_a, multiple, leverage, cap_frac)

\* `if self.fin['cash'].iloc[year_a] < 0: logging.error(...)`
AcquireCashTest(m, year_a) ==
    IF Lt(m.fin.cash[year_a], Zero)
    THEN [m EXCEPT !.log = @ \cup {"cash<0, insufficient cash for the aquisition"}]
    ELSE m

FcfToAcquire(o, adjust_cash, year_a, ebitda_frac, multiple, leverage, gnext, cap_frac) ==
    IF "fcf" \notin o.cols
    THEN [LogUnlessData(o, "financial dataset cannot be used to acquire")
             EXCEPT !.raised = "KeyError"]
    ELSE FcfFromEbitda(AcquireCashTest(
            AcquireMutate(LogUnlessData(o, "financial dataset cannot be used to acquire"),
                          adjust_cash, year_a, ebitda_frac, multiple, leverage, gnext,
                          cap_frac),
            year_a))

(***************************************************************************)
(* noa_to_dispose(dnoa, tax, year_dis)                                     *)
(***************************************************************************)
\* DisposeMutate booking the gross amount, the tax on the disposal left out.
DisposeMutateGross(o, dnoa, tax, year_dis) ==
    [o EXCEPT !.fin.MnA[year_dis] = Sub(@, dnoa),
              !.fin.noa = [i \in Years |-> Sub(o.fin.noa[i], dnoa)]]
\* The two statements before the recompute: MnA[year_dis] and the noa column.
DisposeMutate(o, dnoa, tax, year_dis) ==
    [o EXCEPT !.fin.MnA[year_dis] = Sub(@, Mul(dnoa, Sub(One, tax))),
              !.fin.noa = [i \in Years |-> Sub(o.fin.noa[i], dnoa)]]

NoaToDispose(o, dnoa, tax, year_dis) == FcfFromEbitda(DisposeMutate(o, dnoa, tax, year_dis))

(***************************************************************************)
(* fcf_to_bs()                                                             *)
(***************************************************************************)
RECURSIVE CashBSLoop(_, _)
CashBSLoop(i, f) ==
    IF i >= H THEN f
    ELSE CashBSLoop(i + 1,
            [f EXCEPT !.cashBS[i + 1] =
                Sub(Sub(Add(f.cashBS[i], f.fcfe[i + 1]), f.dividend_policy[i + 1]),
                    f.buybacks[i + 1])])

\* cashBS[0] = cash[0], the statement before the loop.
BsStart(f) == [f EXCEPT !.cashBS[0] = f.cash[0]]

\* BsDividend without the sweep of cashBS[-1] into the last dividend.
BsDividendNoSweep(f) ==
    [f EXCEPT !.dividend = [i \in Years |-> Div(f.dividend_policy[i], f.shares[i])]]
\* dividend = dividend_policy / shares, the last year topped up with cashBS[-1].
BsDividend(f) ==
    [f EXCEPT !.dividend = [i \in Years |->
        IF i = H
        THEN Add(Div(f.dividend_policy[H], f.shares[H]), Div(f.cashBS[H], f.shares[H]))
        ELSE Div(f.dividend_policy[i], f.shares[i])]]

FcfToBs(o) ==
    IF "fcfe" \notin o.cols THEN [o EXCEPT !.fin = BsStart(o.fin), !.raised = "KeyError"]
    ELSE IF IsNone(o.fin.fcfe[1])
    THEN [o EXCEPT !.fin = BsStart(o.fin), !.raised = "TypeError"]
    ELSE [o EXCEPT !.fin = BsDividend(CashBSLoop(0, BsStart(o.fin))), !.cash0 = Zero]

(***************************************************************************)
(* fcf_to_buyback(price, dp)                                               *)
(***************************************************************************)
\* The dollars bought back in year i + 1 (loop index i).
BuybackOf(f, i) ==
    IF i = 0 THEN Sub(Add(f.fcfe[i + 1], f.cash[0]), f.dividend_policy[i + 1])
    ELSE Sub(f.fcfe[i + 1], f.dividend_policy[i + 1])

\* shares[i + 1] = shares[i] - buybacks[i + 1] / price[i]
SharesStep(f, i) ==
    [f EXCEPT !.shares[i + 1] = Sub(f.shares[i], Div(f.buybacks[i + 1], f.price[i]))]

BuybackStep(f, i) == SharesStep([f EXCEPT !.buybacks[i + 1] = BuybackOf(f, i)], i)

\* The price of year i + 1 in the 'proportional' mode.
PriceStep(f, i, multiple) ==
    [f EXCEPT !.price[i + 1] =
        PyMax(Div(Sub(Mul(multiple, f.ebitda[i + 2]), f.debt[i + 1]), f.shares[i + 1]),
              f.price[i])]

\* price[-1] = price[-2]; shares[-1] = shares[-2] - buybacks[-1] / price[-1]
LastYearShares(g) ==
    [g EXCEPT !.shares[H] = Sub(g.shares[H - 1], Div(g.buybacks[H], g.price[H]))]
LastYearClose(f) == LastYearShares([f EXCEPT !.price[H] = f.price[H - 1]])

RECURSIVE BuybackConstant(_, _)
BuybackConstant(i, f) ==
    IF i >= H THEN f ELSE BuybackConstant(i + 1, BuybackStep(f, i))

RECURSIVE BuybackProportional(_, _, _)
BuybackProportional(i, f, multiple) ==
    IF i >= H - 1 THEN f
    ELSE BuybackProportional(i + 1, PriceStep(BuybackStep(f, i), i, multiple), multiple)

\* EV / ebitda[1] of today, the forward multiple the 'proportional' mode keeps.
ForwardMultiple(f, p) ==
    Div(Sub(Add(Mul(p, shares), f.debt[0]), f.cash[0]), f.ebitda[1])

\* self.fin['price'] = price
BuybackPrice(f, p) == [f EXCEPT !.price = ConstCol(p)]

\* The loop of the mode dp over the table f0 that holds the price.
BuybackTable(f0, p, dp) ==
    IF dp = "constant" THEN BuybackConstant(0, f0)
    ELSE IF dp = "proportional"
    THEN LastYearClose(BuybackProportional(0, f0, ForwardMultiple(f0, p)))
    ELSE f0

\* dividend = (fcfe - buybacks) / shares, then its years 0 and 1.
BuybackDividend(f1, dividend, cash0) ==
    [f1 EXCEPT !.dividend = [i \in Years |->
        IF i = 0 THEN dividend[1]
        ELSE IF i = 1
        THEN Div(Sub(Add(f1.fcfe[1], cash0), f1.buybacks[1]), f1.shares[1])
        ELSE Div(Sub(f1.fcfe[i], f1.buybacks[i]), f1.shares[i])]]

FcfToBuyback(o, p, dp) ==
    IF "fcfe" \notin o.cols
    THEN [o EXCEPT !.fin = BuybackPrice(o.fin, p), !.raised = "KeyError"]
    ELSE IF IsNone(o.fin.fcfe[1])
    THEN [o EXCEPT !.fin = BuybackPrice(o.fin, p), !.raised = "TypeError"]
    ELSE [o EXCEPT !.fin = BuybackDividend(BuybackTable(BuybackPrice(o.fin, p), p, dp),
                                           o.dividend, o.cash0),
                   !.cash0 = Zero,
                   !.buybacks = "True"]

(***************************************************************************)
(* fcf_to_allocate(price, dp, buybacks); bb is the list made of the        *)
(* `buybacks` argument, << >> when it is None.                             *)
(***************************************************************************)
\* self.fin['buybacks'] of the explicit schedule, year i.
ScheduledBuyback(f, bb, i) ==
    IF i < Len(bb) THEN bb[i + 1]
    ELSE Mul(Div(bb[Len(bb)], f.fcf[Len(bb) - 1]), f.fcf[i])

RECURSIVE SharesConstant(_, _)
SharesConstant(i, f) ==
    IF i >= H THEN f ELSE SharesConstant(i + 1, SharesStep(f, i))

RECURSIVE SharesProportional(_, _, _)
SharesProportional(i, f, multiple) ==
    IF i >= H - 1 THEN f
    ELSE SharesProportional(i + 1, PriceStep(SharesStep(f, i), i, multiple), multiple)

\* self.buybacks = True, the last statement of fcf_to_allocate.
AllocateClose(s) == IF s.raised # "none" THEN s ELSE [s EXCEPT !.buybacks = "True"]

\* fcf_to_bs() after fcf_to_buyback(), unless that raised.
BsUnlessRaised(b) == IF b.raised # "none" THEN b ELSE FcfToBs(b)

\* The buybacks column when reading fin['fcf'] raises: the listed years only.
ScheduleStart(f, bb) ==
    [f EXCEPT !.buybacks = [i \in Years |-> IF i < Len(bb) THEN bb[i + 1] ELSE Zero]]

\* The buybacks column of the schedule, and the price.
ScheduleTable(f, bb, p) ==
    [f EXCEPT !.buybacks = [i \in Years |-> ScheduledBuyback(f, bb, i)],
              !.price = ConstCol(p)]

\* The share count of the mode dp over the table f0 that holds the schedule.
SharesTable(f0, p, dp) ==
    IF dp = "constant" THEN SharesConstant(0, f0)
    ELSE IF dp = "proportional"
    THEN LastYearClose(SharesProportional(0, f0, ForwardMultiple(f0, p)))
    ELSE f0

FcfToAllocate(o, p, dp, bb) ==
    IF bb = << >> THEN AllocateClose(BsUnlessRaised(FcfToBuyback(o, p, dp)))
    ELSE IF Len(bb) < H + 1 /\ "fcf" \notin o.cols
    THEN [o EXCEPT !.buybacks = "list", !.fin = ScheduleStart(o.fin, bb),
                   !.raised = "KeyError"]
    ELSE IF Len(bb) < H + 1 /\ IsNone(o.fin.fcf[Len(bb) - 1])
    THEN [o EXCEPT !.buybacks = "list", !.fin = ScheduleStart(o.fin, bb),
                   !.raised = "TypeError"]
    ELSE AllocateClose(FcfToBs(
            [o EXCEPT !.buybacks = "list",
                      !.fin = SharesTable(ScheduleTable(o.fin, bb, p), p, dp)]))

(***************************************************************************)
(* value() and its helpers __pv and __wacc                                 *)
(***************************************************************************)
\* The rate __pv discounts cfs[i + 1] + value[i + 1] with on the way to value[i]:
\* r[::-1][H - i], the rate of year i.
\* PvRate taking the rate of the year the flow falls in.
PvRateOfFlowYear(r, i) == r[i + 1]
PvRate(r, i) == r[i]

\* The first element __pv builds, the value in the last year: the last flow
\* grown once when cft is None, else the terminal flow cft, over r - g.
PvTerminal(cfs, g, r, cft) ==
    IF IsNone(cft) THEN Div(Mul(cfs[H], Add(One, g)), Sub(r[H], g))
    ELSE Div(cft, Sub(r[H], g))

\* __pv(cfs, g, r, cft): r is a column of rates (a float r is the constant column).
PvCol(cfs, g, r, cft) ==
    LET v[i \in Years] ==
            IF i = H THEN PvTerminal(cfs, g, r, cft)
            ELSE Div(Add(cfs[i + 1], v[i + 1]), Add(One, PvRate(r, i)))
    IN Col(v)

\* __wacc(): the columns EV and wacc.
EVCol(f) == [i \in Years |-> Add(f.debt[i], f.equity[i])]
WaccCol(f) ==
    [i \in Years |->
        Div(Add(Mul(Mul(f.debt[i], rd), Sub(One, t)), Mul(f.equity[i], re)), f.EV[i])]
WithEV(f) == [f EXCEPT !.EV = Col(EVCol(f))]
WithWacc(f) == [f EXCEPT !.wacc = Col(WaccCol(f))]
Wacc(f) == WithWacc(WithEV(f))

RECURSIVE Power(_, _)
Power(x, n) == IF n = 0 THEN One ELSE Mul(x, Power(x, n - 1))

\* self.fcfet
TerminalFcfe(f) ==
    Mul(Add(Sub(f.fcf[H], Mul(f.dDebt[H], rd)), Mul(f.debt[H], gt)), Add(One, gt))

\* value(), the branch of data_for_ebitda, statement by statement.
WithEquity(f, cft) == [f EXCEPT !.equity = PvCol(f.fcfe, gt, ConstCol(re), cft)]
WithFirm(f) == [f EXCEPT !.firm = PvCol(f.fcff, gt, f.wacc, NoneV)]
WithDDM(f, fcfet) ==
    [f EXCEPT !.DDM = PvCol(f.dividend, gt, ConstCol(re), Div(fcfet, f.shares[H]))]
WithValuePerShare(f) ==
    [f EXCEPT !.value_per_share = [i \in Years |->
        IF i = 0
        THEN Add(Div(Add(f.equity[0], f.noa[0]), shares), Div(f.cash[0], shares))
        ELSE Div(Add(f.equity[i], f.noa[i]), shares)]]
\* The DDM value per share before the top-up of its last year.
DDMPerShare(f, cash0, i) ==
    IF i = 0 THEN Add(Add(f.DDM[0], Div(f.noa[0], f.shares[0])), Div(cash0, f.shares[0]))
    ELSE Add(f.DDM[i], Div(f.noa[i], f.shares[i]))
WithValuePerShareDDM(f, cash0) ==
    [f EXCEPT !.value_per_share_DDM = [i \in Years |->
        IF i = H THEN Add(DDMPerShare(f, cash0, H), Div(f.cashBS[H], f.shares[H]))
        ELSE DDMPerShare(f, cash0, i)]]

ValueTable(f, fcfet, cash0) ==
    WithValuePerShareDDM(
        WithValuePerShare(WithDDM(WithFirm(Wacc(WithEquity(f, fcfet))), fcfet)), cash0)

\* self.vpsbb
Vpsbb(f, buybacks) ==
    IF buybacks = "True"
    THEN Div(Div(Add(f.equity[H], f.noa[H]), f.shares[H]), Power(Add(One, re), H))
    ELSE Zero
ValueClose(o) == [o EXCEPT !.vpsbb = Vpsbb(o.fin, o.buybacks)]

Value(o) ==
    IF o.data_for_ebitda
    THEN IF {"fcf", "dDebt", "fcfe", "fcff", "dividend"} \subseteq o.cols
         THEN ValueClose([o EXCEPT !.fin = ValueTable(o.fin, TerminalFcfe(o.fin), o.cash0),
                                   !.cols = @ \cup ValueCols,
                                   !.fcfet = TerminalFcfe(o.fin)])
         ELSE [o EXCEPT !.raised = "KeyError"]
    ELSE IF "fcfe" \in o.cols
         THEN ValueClose([o EXCEPT !.fin = [WithEquity(o.fin, NoneV) EXCEPT !.firm = NoneCol],
                                   !.cols = @ \cup {"equity", "firm"}])
         ELSE [o EXCEPT !.raised = "AttributeError"]

(***************************************************************************)
(* State.                                                                  *)
(***************************************************************************)
VARIABLES
    args,            \* what the script passes to the forecast builders
    financials,      \* the `financials` dictionary (<< >>: the key is not set)
    stage,           \* "new" (company(financials=None)), then "loaded" (self.fin exists)
    fin, cols,       \* self.fin
    cash0, buybacks, data_for_ebitda, te, dividend,   \* attributes of self
    fcfet, vpsbb,    \* attributes value() sets (NaN before)
    errlog,          \* what the last call gave to logging.error
    raised,          \* the exception that ended the last call, or "none"
    lastOp,          \* the last method called
    lastArgs,        \* the arguments it was called with (<< >>: none that matter)
    calls,           \* the methods called on the table since it was made, in order
    sf, st, values   \* a call of __stream on its own: its arguments, what it returned

vars == <<args, financials, stage, fin, cols, cash0, buybacks, data_for_ebitda, te,
          dividend, fcfet, vpsbb, errlog, raised, lastOp, lastArgs, calls, sf, st, values>>

\* The call of __stream on its own.
frame == <<sf, st, values>>

Debt0Choices == {Zero, R(80)}
Capex0Choices == {R(-8), R(16)}
Nol0Choices == {Zero, R(16)}

\* The arguments of the forecast builders, and the dictionary `financials`
\* before they fill it.
ArgsOf(capex0) ==
    [ebitda_ttm |-> R(64), gf |-> <<Zero>>,
     me |-> NaN, mc |-> NaN, gsnext |-> NaN,
     capex_f |-> <<capex0>>, sbc_f |-> <<R(8)>>, sbc_rate_t |-> NaN]
FinancialsOf(debt0, nol0) ==
    [revenue |-> << >>, ebitda |-> << >>, capex |-> << >>, sbc |-> << >>,
     dwc |-> [j \in 1..(H + 1) |-> Zero],
     debt |-> [j \in 1..(H + 1) |-> debt0],
     cash |-> <<R(64)>>, nol |-> <<nol0>>, noa |-> <<R(4)>>,
     tax |-> <<R(16)>>, da |-> <<R(32)>>, interest |-> <<Zero>>]

\* The object company(financials=None) makes, before any other call.
Fresh ==
    /\ stage = "new"
    /\ fin = EmptyFin
    /\ cols = {}
    /\ cash0 = NaN
    /\ buybacks = "False"
    /\ data_for_ebitda = FALSE
    /\ fcfet = NaN
    /\ vpsbb = NaN
    /\ errlog = {}
    /\ raised = "none"
    /\ lastOp = "__init__"
    /\ lastArgs = << >>
    /\ calls = << >>

\* No call of __stream on its own is under way.
NoFrame == sf = << >> /\ st = NaN /\ values = << >>

Init ==
    /\ \E capex0 \in Capex0Choices : args = ArgsOf(capex0)
    /\ \E debt0 \in Debt0Choices, nol0 \in Nol0Choices : financials = FinancialsOf(debt0, nol0)
    /\ te \in TeChoices
    /\ dividend \in DividendChoices
    /\ Fresh
    /\ NoFrame

\* The object as the methods below take it.
Obj == [fin |-> fin, cols |-> cols, cash0 |-> cash0, buybacks |-> buybacks,
        data_for_ebitda |-> data_for_ebitda, te |-> te, dividend |-> dividend,
        fcfet |-> fcfet, vpsbb |-> vpsbb, log |-> {}, raised |-> "none"]

\* Every number of the object is one the model computes exactly.
Exact(o) ==
    /\ {c \in AllCols : \E i \in Years : IsBig(o.fin[c][i])} = {}
    /\ ~IsBig(o.cash0) /\ ~IsBig(o.fcfet) /\ ~IsBig(o.vpsbb)

\* The object after a call, stored.  A call whose exact result does not fit the
\* integers of the model is not explored.
Store(o, op, a) ==
    /\ Exact(o)
    /\ fin' = o.fin
    /\ cols' = o.cols
    /\ cash0' = o.cash0
    /\ buybacks' = o.buybacks
    /\ data_for_ebitda' = o.data_for_ebitda
    /\ fcfet' = o.fcfet
    /\ vpsbb' = o.vpsbb
    /\ errlog' = o.log
    /\ raised' = o.raised
    /\ lastOp' = op
    /\ lastArgs' = a
    /\ calls' = Append(calls, op)
    /\ UNCHANGED <<args, financials, stage, te, dividend>>
    /\ UNCHANGED frame

ForecastEbitda ==
    /\ stage = "new"
    /\ financials.ebitda = << >>
    /\ LET r == ForecastEbitdaLists(args.ebitda_ttm, args.gf, args.me, args.mc, args.gsnext)
       IN financials' = [financials EXCEPT !.ebitda = r.ebitda, !.revenue = r.revenue]
    /\ lastOp' = "forecast_ebitda"
    /\ UNCHANGED <<args, stage, fin, cols, cash0, buybacks, data_for_ebitda, te, dividend,
                   fcfet, vpsbb, errlog, raised, lastArgs, calls>>
    /\ UNCHANGED frame

ForecastCapex ==
    /\ stage = "new"
    /\ financials.ebitda # << >>
    /\ financials.capex = << >>
    /\ financials' = [financials EXCEPT
                        !.capex = ForecastCapexList(args.capex_f, financials.ebitda)]
    /\ lastOp' = "forecast_capex"
    /\ UNCHANGED <<args, stage, fin, cols, cash0, buybacks, data_for_ebitda, te, dividend,
                   fcfet, vpsbb, errlog, raised, lastArgs, calls>>
    /\ UNCHANGED frame

ForecastSbc ==
    /\ stage = "new"
    /\ financials.ebitda # << >>
    /\ financials.sbc = << >>
    /\ financials' = [financials EXCEPT
                        !.sbc = ForecastSbcList(args.sbc_f, financials.ebitda, args.sbc_rate_t)]
    /\ lastOp' = "forecast_sbc"
    /\ UNCHANGED <<args, stage, fin, cols, cash0, buybacks, data_for_ebitda, te, dividend,
                   fcfet, vpsbb, errlog, raised, lastArgs, calls>>
    /\ UNCHANGED frame

Forecasted == financials.ebitda # << >> /\ financials.capex # << >> /\ financials.sbc # << >>

\* load_financials(financials) on the object made with financials=None.
Load ==
    /\ stage = "new"
    /\ Forecasted
    /\ LET r == LoadFinancials(financials)
       IN /\ fin' = r.fin
          /\ cols' = r.cols
          /\ cash0' = r.cash0
          /\ data_for_ebitda' = r.data_for_ebitda
    /\ stage' = "loaded"
    /\ lastOp' = "load_financials"
    /\ UNCHANGED <<args, financials, buybacks, te, dividend, fcfet, vpsbb, errlog, raised,
                   lastArgs, calls>>
    /\ UNCHANGED frame

\* company(financials=financials, ...): the constructor loads the dictionary,
\* sets the columns fcfe, fcff and fcf to its arguments of those names (None)
\* and derives 'dividend' from them.
Construct ==
    /\ stage = "new"
    /\ Forecasted
    /\ calls = << >>
    /\ LET r == LoadFinancials(financials)
       IN /\ fin' = [r.fin EXCEPT !.fcfe = NoneCol, !.fcff = NoneCol, !.fcf = NoneCol,
                                  !.dividend = NaNCol]
          /\ cols' = r.cols \cup {"fcfe", "fcff", "fcf", "dividend"}
          /\ cash0' = r.cash0
          /\ data_for_ebitda' = r.data_for_ebitda
    /\ stage' = "loaded"
    /\ lastOp' = "__init__"
    /\ UNCHANGED <<args, financials, buybacks, te, dividend, fcfet, vpsbb, errlog, raised,
                   lastArgs, calls>>
    /\ UNCHANGED frame

CanCall == stage = "loaded" /\ raised = "none" /\ Len(calls) < MaxOps

CallFcfFromEbitda ==
    /\ CanCall
    /\ Store(FcfFromEbitda(Obj), "fcf_from_ebitda", << >>)

LeverageChoices == {One, R(2)}
YearDChoices == {1, 2}

CallFcfToDebt ==
    /\ CanCall
    /\ \E leverage \in LeverageChoices, year_d \in YearDChoices :
         Store(FcfToDebt(Obj, leverage, year_d), "fcf_to_debt",
               [leverage |-> leverage, year_d |-> year_d])

YearAChoices == {0, 1}
\* The other arguments of the acquisitions explored: ebitda_frac, multiple,
\* leverage, gnext, cap_frac.
AcquireEbitdaFrac == Q(1, 4)
AcquireMultiple == R(8)
AcquireLeverage == R(2)
AcquireGnext == Zero
AcquireCapFrac == Q(1, 4)

\* fcf_to_acquire(adjust_cash, year_a, ...) with those arguments.
Acquire(o, adjust_cash, year_a) ==
    FcfToAcquire(o, adjust_cash, year_a, AcquireEbitdaFrac, AcquireMultiple,
                 AcquireLeverage, AcquireGnext, AcquireCapFrac)

CallFcfToAcquire ==
    /\ CanCall
    /\ \E adjust_cash \in BOOLEAN, year_a \in YearAChoices :
         Store(Acquire(Obj, adjust_cash, year_a), "fcf_to_acquire",
               [adjust_cash |-> adjust_cash, year_a |-> year_a])

YearDisChoices == {1, 2}
\* The other arguments of the disposals explored: dnoa, tax.
DisposeDnoa == R(2)
DisposeTax == Q(1, 2)

\* noa_to_dispose(dnoa, tax, year_dis) with those arguments.
Dispose(o, year_dis) == NoaToDispose(o, DisposeDnoa, DisposeTax, year_dis)

CallNoaToDispose ==
    /\ CanCall
    /\ \E year_dis \in YearDisChoices :
         Store(Dispose(Obj, year_dis), "noa_to_dispose", [year_dis |-> year_dis])

DpChoices == {"constant", "proportional"}
\* The `buybacks` argument of fcf_to_allocate as a list; << >> is None.
BuybacksChoices == {<< >>, <<Zero, R(4)>>}

CallFcfToBuyback ==
    /\ CanCall
    /\ \E dp \in DpChoices : Store(FcfToBuyback(Obj, price, dp), "fcf_to_buyback", [dp |-> dp])

CallFcfToAllocate ==
    /\ CanCall
    /\ \E dp \in DpChoices, bb \in BuybacksChoices :
         Store(FcfToAllocate(Obj, price, dp, bb), "fcf_to_allocate",
               [dp |-> dp, buybacks |-> bb])

CallValue ==
    /\ CanCall
    /\ Store(Value(Obj), "value", << >>)

Next ==
    \/ ForecastEbitda
    \/ ForecastCapex
    \/ ForecastSbc
    \/ Load
    \/ Construct
    \/ CallFcfFromEbitda
    \/ CallFcfToDebt
    \/ CallFcfToBuyback
    \/ CallFcfToAllocate
    \/ CallFcfToAcquire
    \/ CallNoaToDispose
    \/ CallValue

Spec == Init /\ [][Next]_vars

(***************************************************************************)
(* __stream on its own: the explicit values are a number or a list of one  *)
(* to `year` numbers, none of them NaN.                                    *)
(***************************************************************************)
StreamValues == {R(10), R(40), R(-5)}
StreamLists == UNION {[1..n -> StreamValues] : n \in 1..H}

StreamInit ==
    /\ args = ArgsOf(R(16))
    /\ financials = FinancialsOf(Zero, Zero)
    /\ te = NaN
    /\ dividend = <<Zero>>
    /\ Fresh
    /\ sf \in ({"float"} \X StreamValues) \cup ({"list"} \X StreamLists)
    /\ st \in StreamValues
    /\ values = << >>

CallStream ==
    /\ values = << >>
    /\ values' = StreamOf(sf, st)
    /\ UNCHANGED <<args, financials, stage, fin, cols, cash0, buybacks, data_for_ebitda, te,
                   dividend, fcfet, vpsbb, errlog, raised, lastOp, lastArgs, calls, sf, st>>

StreamNext == CallStream

StreamSpec == StreamInit /\ [][StreamNext]_vars

(***************************************************************************)
(* Properties.                                                             *)
(***************************************************************************)
\* The methods that end with fcf_from_ebitda(), and the states one of them has
\* just left by returning.
RecomputingOps == {"fcf_from_ebitda", "fcf_to_debt", "fcf_to_acquire", "noa_to_dispose"}
Recomputed == stage = "loaded" /\ raised = "none" /\ lastOp \in RecomputingOps

\* m is the greater of a and b.
IsMaxOf(m, a, b) == (m = a \/ m = b) /\ Ge(m, a) /\ Ge(m, b)

\* C1: in every state a recomputation has just left, running fcf_from_ebitda
\* once more changes no column of the table (nor the set of columns).
C1_Idempotent ==
    Recomputed => FcfFromEbitda(Obj).fin = fin /\ FcfFromEbitda(Obj).cols = cols

\* C1 happens: fcf_from_ebitda has been called right after a call that ended
\* with it, on a table whose free cash flow is a number.
C1_Witness ==
    /\ Recomputed
    /\ Len(calls) = 2
    /\ calls[1] \in RecomputingOps
    /\ calls[2] = "fcf_from_ebitda"
    /\ ~IsNaN(fin.fcf[H])
    /\ FcfFromEbitda(Obj).fin = fin

\* The first half of C2: fcf = ebitda - sbc - tax_cash - capex - dwc - interest.
FcfIdentity(i) ==
    fin.fcf[i] = Sub(Sub(Sub(Sub(Sub(fin.ebitda[i], fin.sbc[i]), fin.tax_cash[i]),
                             fin.capex[i]), fin.dwc[i]), fin.interest[i])

C3_EquityIdentity ==
    Recomputed =>
        \A i \in Years :
            /\ fin.dDebt[i] = IF i = 0 THEN Zero ELSE Sub(fin.debt[i], fin.debt[i - 1])
            /\ fin.fcfe[i] = Sub(Add(fin.fcf[i], fin.dDebt[i]), fin.MnA[i])

\* C3 happens: a recomputed year in which debt changed and M&A cash flowed.
C3_Witness ==
    /\ Recomputed
    /\ \E i \in Years :
          /\ ~IsNaN(fin.fcfe[i])
          /\ fin.dDebt[i] # Zero
          /\ fin.MnA[i] # Zero

\* C4: after every recomputation, in every year i >= 1, nol[i] is the greater
\* of nol[i-1] - income_pretax[i] and 0, income_taxable[i] is the greater of 0
\* and income_pretax[i] - nol[i-1], and nol[i] >= 0 when nol[0] >= 0.
C4_NolWaterfall ==
    Recomputed =>
        \A i \in 1..H :
            /\ IsMaxOf(fin.nol[i], Sub(fin.nol[i - 1], fin.income_pretax[i]), Zero)
            /\ IsMaxOf(fin.income_taxable[i], Zero,
                       Sub(fin.income_pretax[i], fin.nol[i - 1]))
            /\ Ge(fin.nol[0], Zero) => Ge(fin.nol[i], Zero)

\* C4 happens: a year uses up a part of the loss carried into it, and a year
\* with no loss left is taxed on its whole income.
C4_Witness ==
    /\ Recomputed
    /\ \E i \in 1..H : IsPos(fin.nol[i]) /\ Lt(fin.nol[i], fin.nol[i - 1])
    /\ \E i \in 1..H : fin.nol[i] = Zero /\ IsPos(fin.income_taxable[i])

\* The states fcf_to_debt(leverage, year_d = 1) has just left by returning.
DebtTargeted ==
    stage = "loaded" /\ raised = "none" /\ lastOp = "fcf_to_debt" /\ lastArgs.year_d = 1

\* The call before the last one ended with fcf_from_ebitda(): the derived
\* columns were those of the inputs when the last call began.
CalledOnRecomputed == Len(calls) >= 2 /\ calls[Len(calls) - 1] \in RecomputingOps

\* What year i is over its target by, seen from the year before, and whether
\* the cash constraint of year i does not bind: the year is under-levered or
\* the available cash covers the excess.
DebtExcess(i) == Sub(fin.debt[i - 1], Mul(lastArgs.leverage, fin.ebitda[i]))
NotBinding(i) == Lt(DebtExcess(i), Zero) \/ Ge(DebtAvail(fin, i - 1), DebtExcess(i))
OnTarget(i) ==
    (Gt(fin.ebitda[i], Zero) /\ NotBinding(i)) =>
        fin.debt[i] = Mul(lastArgs.leverage, fin.ebitda[i])

\* The years the passes settle: pass k settles year k.
SettledYears == 1..(IF H < Passes THEN H ELSE Passes)

\* C5, within the passes: after fcf_to_debt(L, year_d = 1), called on a table
\* whose derived columns are current, every year i from 1 to the number of
\* passes with ebitda[i] > 0 and a cash constraint that does not bind has
\* debt[i] = L * ebitda[i].
C5_WithinPasses ==
    (DebtTargeted /\ CalledOnRecomputed) => \A i \in SettledYears : OnTarget(i)

\* C5 as stated: the same of every forecast year 1..H.
C5_AsStated == DebtTargeted => \A i \in 1..H : OnTarget(i)

\* C5 happens: an over-levered year whose excess the available cash covers has
\* been brought down to its target.
C5_Witness ==
    /\ DebtTargeted
    /\ CalledOnRecomputed
    /\ \E i \in SettledYears :
          /\ IsPos(fin.ebitda[i])
          /\ IsPos(DebtExcess(i))
          /\ Ge(DebtAvail(fin, i - 1), DebtExcess(i))
          /\ fin.debt[i] = Mul(lastArgs.leverage, fin.ebitda[i])

\* The datasets the optional actions start from: a dictionary filled by the
\* three forecast builders, loaded, with fcf_from_ebitda run on it.
Forecasts(a, d) ==
    [d EXCEPT
        !.ebitda = ForecastEbitdaLists(a.ebitda_ttm, a.gf, a.me, a.mc, a.gsnext).ebitda,
        !.revenue = ForecastEbitdaLists(a.ebitda_ttm, a.gf, a.me, a.mc, a.gsnext).revenue,
        !.capex = ForecastCapexList(a.capex_f,
                      ForecastEbitdaLists(a.ebitda_ttm, a.gf, a.me, a.mc, a.gsnext).ebitda),
        !.sbc = ForecastSbcList(a.sbc_f,
                    ForecastEbitdaLists(a.ebitda_ttm, a.gf, a.me, a.mc, a.gsnext).ebitda,
                    a.sbc_rate_t)]
Loaded(r, te0, dividend0) ==
    [fin |-> r.fin, cols |-> r.cols, cash0 |-> r.cash0, buybacks |-> "False",
     data_for_ebitda |-> r.data_for_ebitda, te |-> te0, dividend |-> dividend0,
     fcfet |-> NaN, vpsbb |-> NaN, log |-> {}, raised |-> "none"]
StartDatasets ==
    {FcfFromEbitda(Loaded(LoadFinancials(Forecasts(ArgsOf(capex0), FinancialsOf(debt0, nol0))),
                          te0, dividend0)) :
        capex0 \in Capex0Choices, debt0 \in Debt0Choices, nol0 \in Nol0Choices,
        te0 \in TeChoices, dividend0 \in DividendChoices}

\* Two of the optional actions on the object o, in the one order and in the
\* other; an action that raises ends the sequence.
Completed(o) == o.raised = "none"
DebtThenAcquire(o, leverage, year_d, adjust_cash, year_a) ==
    LET first == FcfToDebt(o, leverage, year_d)
    IN  IF Completed(first) THEN Acquire(first, adjust_cash, year_a) ELSE first
AcquireThenDebt(o, leverage, year_d, adjust_cash, year_a) ==
    LET first == Acquire(o, adjust_cash, year_a)
    IN  IF Completed(first) THEN FcfToDebt(first, leverage, year_d) ELSE first
DebtThenDispose(o, leverage, year_d, year_dis) ==
    LET first == FcfToDebt(o, leverage, year_d)
    IN  IF Completed(first) THEN Dispose(first, year_dis) ELSE first
DisposeThenDebt(o, leverage, year_d, year_dis) ==
    LET first == Dispose(o, year_dis)
    IN  IF Completed(first) THEN FcfToDebt(first, leverage, year_d) ELSE first
AcquireThenDispose(o, adjust_cash, year_a, year_dis) ==
    LET first == Acquire(o, adjust_cash, year_a)
    IN  IF Completed(first) THEN Dispose(first, year_dis) ELSE first
DisposeThenAcquire(o, adjust_cash, year_a, year_dis) ==
    LET first == Dispose(o, year_dis)
    IN  IF Completed(first) THEN Acquire(first, adjust_cash, year_a) ELSE first

\* Both sequences ran to their end, on numbers computed exactly, and left
\* different tables.
Differ(a, b) == Completed(a) /\ Completed(b) /\ Exact(a) /\ Exact(b) /\ a.fin # b.fin

\* From the object o, some arguments make the order of the two actions matter.
DebtAcquireOrderMatters(o) ==
    \E leverage \in LeverageChoices, year_d \in YearDChoices,
       adjust_cash \in BOOLEAN, year_a \in YearAChoices :
        Differ(DebtThenAcquire(o, leverage, year_d, adjust_cash, year_a),
               AcquireThenDebt(o, leverage, year_d, adjust_cash, year_a))
DebtDisposeOrderMatters(o) ==
    \E leverage \in LeverageChoices, year_d \in YearDChoices, year_dis \in YearDisChoices :
        Differ(DebtThenDispose(o, leverage, year_d, year_dis),
               DisposeThenDebt(o, leverage, year_d, year_dis))
AcquireDisposeOrderMatters(o) ==
    \E adjust_cash \in BOOLEAN, year_a \in YearAChoices, year_dis \in YearDisChoices :
        Differ(AcquireThenDispose(o, adjust_cash, year_a, year_dis),
               DisposeThenAcquire(o, adjust_cash, year_a, year_dis))

\* Some starting dataset has arguments for which the order of the pair matters.
DebtAcquireSomewhere == \E o \in StartDatasets : DebtAcquireOrderMatters(o)
DebtDisposeSomewhere == \E o \in StartDatasets : DebtDisposeOrderMatters(o)
AcquireDisposeSomewhere == \E o \in StartDatasets : AcquireDisposeOrderMatters(o)

\* The table is one a single call has left with its derived columns computed.
FirstRecomputed == Recomputed /\ Len(calls) = 1

\* The state a run begins in.
Begun == stage = "new" /\ financials.ebitda = << >>

\* C8: the order of debt targeting and acquisition matters for some starting
\* dataset and arguments, and so does the order of debt targeting and disposal
\* (facts about the datasets, evaluated where a run begins); acquisition and
\* disposal, from any table a first recomputing call has left and for all
\* arguments, leave the same table in either order.
C8_OrderMatters ==
    /\ Begun => (DebtAcquireSomewhere /\ DebtDisposeSomewhere)
    /\ FirstRecomputed => ~AcquireDisposeOrderMatters(Obj)

\* C8 as stated: each of the three pairs has a starting dataset and arguments
\* for which the two orders leave different tables.
C8_AsStated == DebtAcquireSomewhere /\ DebtDisposeSomewhere /\ AcquireDisposeSomewhere

\* fcf_from_ebitda has just run on a loaded table that is one of the starting
\* datasets, and from it the order matters for both pairs with debt targeting
\* and not for acquisition and disposal.
C8_Witness ==
    /\ FirstRecomputed
    /\ lastOp = "fcf_from_ebitda"
    /\ \E o \in StartDatasets : o.fin = fin
    /\ DebtAcquireOrderMatters(Obj)
    /\ DebtDisposeOrderMatters(Obj)
    /\ ~AcquireDisposeOrderMatters(Obj)

\* The allocation actions, and the states of a loaded table on which no call
\* has yet run fcf_from_ebitda().
AllocationOps == {"fcf_to_debt", "fcf_to_buyback", "fcf_to_allocate", "fcf_to_acquire"}
BeforeFcf == stage = "loaded" /\ \A k \in 1..Len(calls) : calls[k] \notin RecomputingOps

\* C6 as stated: a call of an allocation action or of value() on a loaded table
\* on which fcf_from_ebitda has never run ends with PrerequisiteError and
\* leaves the table and its set of columns as they were.
C6_AsStated ==
    [][(BeforeFcf /\ calls' # calls /\ lastOp' \in AllocationOps \cup {"value"}) =>
          (raised' = "PrerequisiteError" /\ fin' = fin /\ cols' = cols)]_vars

\* The input columns whose year 0 no method writes, and all those C7 names.
KeptInputs == {"ebitda", "capex", "sbc", "dwc", "nol", "tax", "interest", "da"}
ActualInputs == KeptInputs \cup {"debt", "cash", "noa"}

\* The step is a call of fcf_to_acquire with year_a = 0, of noa_to_dispose.
AcquiresNow == calls' # calls /\ lastOp' = "fcf_to_acquire" /\ lastArgs'.year_a = 0
DisposesNow == calls' # calls /\ lastOp' = "noa_to_dispose"

\* C7, as the program has it: loading puts the record's first entries in year
\* 0, and after that no step changes year 0 of ebitda, capex, sbc, dwc, nol,
\* tax, interest or da; debt[0] and cash[0] change only in an acquisition
\* closed in year 0, noa[0] only in a disposal.
C7_YearZeroKept ==
    [][/\ (stage = "new" /\ stage' = "loaded") =>
              \A c \in ActualInputs : fin'[c][0] = financials[c][1]
       /\ stage = "loaded" =>
              /\ \A c \in KeptInputs : fin'[c][0] = fin[c][0]
              /\ ~AcquiresNow => fin'.debt[0] = fin.debt[0] /\ fin'.cash[0] = fin.cash[0]
              /\ ~DisposesNow => fin'.noa[0] = fin.noa[0]]_vars

\* C7 as stated: in every state of a loaded table, year 0 of every actual
\* input column is what the record held.
C7_AsStated ==
    stage = "loaded" => \A c \in ActualInputs : fin[c][0] = financials[c][1]

\* C7 happens: an acquisition closed in year 1 after fcf_from_ebitda has
\* rewritten the later years and left year 0 of every input as loaded.
C7_Witness ==
    /\ stage = "loaded"
    /\ raised = "none"
    /\ calls = <<"fcf_from_ebitda", "fcf_to_acquire">>
    /\ lastArgs.year_a = 1
    /\ fin.ebitda[2] # financials.ebitda[3]
    /\ fin.debt[1] # financials.debt[2]
    /\ \A c \in ActualInputs : fin[c][0] = financials[c][1]

\* C9 as stated: a call of fcf_from_ebitda with a negative terminal
\* depreciation ends with AssumptionError and leaves da, income_pretax, tax
\* and the free-cash-flow columns as they were.
C9_AsStated ==
    [][(stage = "loaded" /\ calls' # calls /\ lastOp' = "fcf_from_ebitda"
            /\ Lt(TerminalDa(fin), Zero)) =>
          (/\ raised' = "AssumptionError"
           /\ \A c \in {"da", "income_pretax", "tax", "fcf", "fcfe", "fcff"} :
                 fin'[c] = fin[c])]_vars

\* The cash of the close year as fcf_to_acquire tests it, for the call the
\* step makes.
ProFormaCash ==
    AcquireMutate(Obj, lastArgs'.adjust_cash, lastArgs'.year_a, AcquireEbitdaFrac,
                  AcquireMultiple, AcquireLeverage, AcquireGnext,
                  AcquireCapFrac).fin.cash[lastArgs'.year_a]

\* C10 as stated: a call of fcf_to_acquire that leaves the cash of the close
\* year negative ends with NegativeCashError and does not recompute the free
\* cash flows.
C10_AsStated ==
    [][(stage = "loaded" /\ "fcf" \in cols /\ calls' # calls
            /\ lastOp' = "fcf_to_acquire" /\ Lt(ProFormaCash, Zero)) =>
          (/\ raised' = "NegativeCashError"
           /\ \A c \in {"fcf", "fcfe", "fcff"} : fin'[c] = fin[c])]_vars

\* The anchors of a call of __stream on its own, and the year of the last one.
Explicit == IF sf = << >> THEN << >> ELSE StreamList(sf)
LastExplicit == Len(Explicit) - 1

ProportionalPayout(i) ==
    Mul(Div(Mul(dividend[Len(dividend)], fin.shares[Len(dividend) - 1]),
            fin.fcf[Len(dividend) - 1]),
        fin.fcf[i])

\* C12: after every recomputation dividend_policy is the declared dividend
\* times the shares in the declared years and never falls from one year to the
\* next after them.
C12_NonDecreasing ==
    Recomputed =>
        \A i \in Years :
            IF i < Len(dividend)
            THEN fin.dividend_policy[i] = Mul(dividend[i + 1], fin.shares[i])
            ELSE Ge(fin.dividend_policy[i], fin.dividend_policy[i - 1])

\* A recomputation has left a table in which a dividend is paid and, in some
\* year after the declared ones, the proportional payout is below the policy
\* of the year before (so the floor is what keeps the policy from falling).
C12_Witness ==
    /\ Recomputed
    /\ IsPos(fin.dividend_policy[0])
    /\ \E i \in Len(dividend)..H :
           /\ Lt(ProportionalPayout(i), fin.dividend_policy[i - 1])
           /\ fin.dividend_policy[i] = fin.dividend_policy[i - 1]

\* value() has just returned after computing the firm value.
Valued == lastOp = "value" /\ raised = "none" /\ data_for_ebitda

\* C13: the firm value is the present value of fcff at the year-varying wacc:
\* in the last year fcff grown once over wacc less growth, and before it the
\* next year's flow and value discounted at the rate of the year being valued,
\* firm[i] = (fcff[i + 1] + firm[i + 1]) / (1 + wacc[i]); fcff[0] is not part
\* of any value.  The equity value follows the same recursion at the rate re.
C13_DiscountedAtOwnYear ==
    Valued =>
        /\ fin.firm[H] = Div(Mul(fin.fcff[H], Add(One, gt)), Sub(fin.wacc[H], gt))
        /\ \A i \in 0..(H - 1) :
               /\ fin.firm[i] = Div(Add(fin.fcff[i + 1], fin.firm[i + 1]),
                                     Add(One, fin.wacc[i]))
               /\ fin.equity[i] = Div(Add(fin.fcfe[i + 1], fin.equity[i + 1]), Add(One, re))

\* C13 as stated: the flow and value of year i + 1 are discounted at the rate
\* of year i + 1.
C13_AsStated ==
    Valued =>
        \A i \in 0..(H - 1) :
            fin.firm[i] = Div(Add(fin.fcff[i + 1], fin.firm[i + 1]), Add(One, fin.wacc[i + 1]))

\* The firm has been valued with a wacc that differs between two consecutive
\* years, on numbers that are all defined.
C13_Witness ==
    /\ Valued
    /\ \A i \in Years : ~IsNaN(fin.firm[i]) /\ ~IsNaN(fin.wacc[i])
    /\ \E i \in 0..(H - 1) : fin.wacc[i] # fin.wacc[i + 1] /\ ~(fin.firm[i + 1] = Zero)

\* The policies that mutate the table, and those of them that end by running
\* fcf_from_ebitda.
PolicyOps == {"fcf_to_debt", "fcf_to_buyback", "fcf_to_allocate", "fcf_to_acquire",
              "noa_to_dispose"}
RecomputingPolicyOps == {"fcf_to_debt", "fcf_to_acquire", "noa_to_dispose"}

\* A further fcf_from_ebitda() would change no column of the table.
NothingToRecompute == FcfFromEbitda(Obj).fin = fin

\* C14: when debt targeting, an acquisition or a disposal returns, the derived
\* columns are those of the mutated inputs: a further fcf_from_ebitda changes
\* no column (debt targeting recomputes after each of its passes, the last one
\* included).
C14_RecomputedAfterPolicy ==
    (raised = "none" /\ lastOp \in RecomputingPolicyOps) => NothingToRecompute

\* C14 as stated: the same of every policy, buyback and generalized allocation
\* included.
C14_AsStated ==
    (raised = "none" /\ lastOp \in PolicyOps) => NothingToRecompute

\* Debt targeting has returned with a debt that moves over the years, and the
\* interest of the table is the interest on that debt.
C14_Witness ==
    /\ raised = "none"
    /\ lastOp = "fcf_to_debt"
    /\ \E i \in 1..H : fin.debt[i] # fin.debt[0]
    /\ \A i \in 1..H : fin.interest[i] = Mul(rd, fin.debt[i - 1])

\* fcf_to_buyback has just returned.
BoughtBack == lastOp = "fcf_to_buyback" /\ raised = "none"

\* Every forecast year's fcfe left by the dividend policy is bought back (with
\* the opening cash in year 1), and the shares shrink by the dollars bought
\* over the price of the year before.
FullyFunded ==
    /\ fin.buybacks[1] = Sub(Add(fin.fcfe[1], fin.cash[0]), fin.dividend_policy[1])
    /\ \A i \in 2..H : fin.buybacks[i] = Sub(fin.fcfe[i], fin.dividend_policy[i])
    /\ \A i \in 1..H :
           fin.shares[i] = Sub(fin.shares[i - 1], Div(fin.buybacks[i], fin.price[i - 1]))

\* C15 as stated: after fcf_to_buyback in either price mode the buybacks of
\* every year 1..H, the last one included, are fully funded.
C15_AsStated == BoughtBack => FullyFunded

\* The same of the 'constant' mode alone.
C15_ConstantMode == (BoughtBack /\ lastArgs.dp = "constant") => FullyFunded

\* fcf_to_allocate has just returned from its branch of an explicit schedule.
Scheduled ==
    lastOp = "fcf_to_allocate" /\ raised = "none" /\ lastArgs.buybacks # << >>

AcquireStep ==
    /\ lastOp' = "fcf_to_acquire"
    /\ raised' = "none"
    /\ calls' = Append(calls, "fcf_to_acquire")

\* The incremental EBITDA of the year after the close year, over the step.
IncrementalEbitda == Sub(fin'.ebitda[lastArgs'.year_a + 1], fin.ebitda[lastArgs'.year_a + 1])

\* MnA of the years other than the close year, and the debt of every year.
AcquireFrame ==
    /\ \A i \in Years \ {lastArgs'.year_a} : fin'.MnA[i] = fin.MnA[i]
    /\ \A i \in Years :
           fin'.debt[i] =
               IF i >= lastArgs'.year_a
               THEN Add(fin.debt[i], Mul(AcquireLeverage, IncrementalEbitda))
               ELSE fin.debt[i]

C18_NolConservation ==
    (Recomputed /\ Ge(fin.nol[0], Zero)) =>
        \A i \in 1..H :
            /\ Sub(fin.income_taxable[i], fin.income_pretax[i]) =
                   Sub(fin.nol[i], fin.nol[i - 1])
            /\ IsNeg(fin.income_pretax[i]) =>
                   fin.nol[i] = Sub(fin.nol[i - 1], fin.income_pretax[i])
            /\ Ge(fin.income_pretax[i], Zero) =>
                   Le(Sub(fin.nol[i - 1], fin.nol[i]), fin.income_pretax[i])
            /\ Ge(fin.income_taxable[i], Zero)

\* C18 happens: a loss year adds to the carry-forward, and a profit year uses
\* up what is carried into it and is taxed on the rest.
C18_Witness ==
    /\ Recomputed
    /\ \E i \in 1..H : IsNeg(fin.income_pretax[i]) /\ Gt(fin.nol[i], fin.nol[i - 1])
    /\ \E i \in 1..H :
           /\ IsPos(fin.nol[i - 1]) /\ fin.nol[i] = Zero
           /\ IsPos(fin.income_taxable[i])

\* The step is a call of fcf_to_debt that returned.
DebtStep ==
    /\ lastOp' = "fcf_to_debt"
    /\ raised' = "none"
    /\ calls' = Append(calls, "fcf_to_debt")

\* debt_Target[i] as the claim gives it, from the arguments of the call.
TargetOf(i) ==
    IF Gt(fin'.ebitda[i], Zero) THEN Mul(lastArgs'.leverage, fin'.ebitda[i]) ELSE Zero

\* C19: after fcf_to_debt(leverage, year_d) returns, debt[i] >= debt_Target[i]
\* (leverage * ebitda[i] if ebitda[i] > 0, else 0) and debt[i] >= 0 in every
\* year i of year_d..H; debt[i] for i < year_d and the columns ebitda, capex,
\* sbc, dwc, MnA and shares are what they were before the call.
C19_NeverUndershoots ==
    [][DebtStep =>
          /\ \A i \in (lastArgs'.year_d)..H :
                 /\ fin'.debt_Target[i] = TargetOf(i)
                 /\ Ge(fin'.debt[i], fin'.debt_Target[i])
                 /\ Ge(fin'.debt[i], Zero)
          /\ \A i \in 0..(lastArgs'.year_d - 1) : fin'.debt[i] = fin.debt[i]
          /\ \A c \in {"ebitda", "capex", "sbc", "dwc", "MnA", "shares"} :
                 fin'[c] = fin[c]]_vars

\* C19 happens: a call from year 2 has returned, and in some year the debt is
\* above its target and above the debt of the year before, the available cash
\* of that over-levered year having been negative.
C19_Witness ==
    /\ stage = "loaded" /\ raised = "none" /\ lastOp = "fcf_to_debt"
    /\ lastArgs.year_d = 2
    /\ \E i \in 2..H :
           /\ Gt(fin.debt[i], fin.debt_Target[i])
           /\ Gt(fin.debt[i], fin.debt[i - 1])

\* The step is a call of noa_to_dispose that returned, on a table that had the
\* columns fcf_from_ebitda computes.
DisposeStep ==
    /\ FcfCols \subseteq cols
    /\ lastOp' = "noa_to_dispose"
    /\ raised' = "none"
    /\ calls' = Append(calls, "noa_to_dispose")

\* The proceeds of the disposal after tax, dnoa * (1 - tax).
Proceeds == Mul(DisposeDnoa, Sub(One, DisposeTax))

\* C20: noa_to_dispose(dnoa, tax, year_dis), year_dis >= 1, on a table with FCF
\* computed raises fcfe[year_dis] and fcff[year_dis] by dnoa * (1 - tax) and
\* cash[i] by the same for every i >= year_dis; fcf, debt, interest, da, nol,
\* tax, tax_cash and dividend_policy of every year, and fcfe and fcff of every
\* other year, are what they were.
C20_DisposalFrame ==
    [][DisposeStep =>
          /\ fin'.fcfe[lastArgs'.year_dis] = Add(fin.fcfe[lastArgs'.year_dis], Proceeds)
          /\ fin'.fcff[lastArgs'.year_dis] = Add(fin.fcff[lastArgs'.year_dis], Proceeds)
          /\ \A i \in (lastArgs'.year_dis)..H : fin'.cash[i] = Add(fin.cash[i], Proceeds)
          /\ \A c \in {"fcf", "debt", "interest", "da", "nol", "tax", "tax_cash",
                       "dividend_policy"} : fin'[c] = fin[c]
          /\ \A i \in Years \ {lastArgs'.year_dis} :
                 fin'.fcfe[i] = fin.fcfe[i] /\ fin'.fcff[i] = fin.fcff[i]]_vars

\* A disposal in year 2 has returned on a table fcf_from_ebitda had filled: the
\* M&A column of that year carries the proceeds as a negative charge and the
\* cash and the flows of the year are numbers.
C20_Witness ==
    /\ lastOp = "noa_to_dispose" /\ raised = "none"
    /\ calls = <<"fcf_from_ebitda", "noa_to_dispose">>
    /\ lastArgs.year_dis = 2
    /\ fin.MnA[2] = Neg(Proceeds)
    /\ ~IsNaN(fin.cash[2]) /\ ~IsNaN(fin.fcfe[2]) /\ ~IsNaN(fin.fcff[2])

====
